---- MODULE Spec2Model ----
(***************************************************************************)
(* Model of the FlowLK JeVois module (doc/ProgrammerInvFlowLK.dox, the     *)
(* Python class FlowLK): the per-frame process() handler that either       *)
(* detects interest points or tracks them with Lucas-Kanade optical flow.  *)
(*                                                                         *)
(* The two OpenCV collaborators are inputs of the handler:                 *)
(*   goodFeaturesToTrack  returns a sequence of at most maxCorners         *)
(*                        pairwise distinct points (minDistance = 7);      *)
(*   calcOpticalFlowPyrLK returns None, or one new location and one status *)
(*                        flag per prior point; for an empty prior set it  *)
(*                        returns None (tutorial text, lines 126-129).     *)
(* Python indexes the color table from 0, the model from 1.                *)
(* The camera images are numbered in the order of the calls; a mask is the *)
(* set of the segments drawn into it.                                      *)
(***************************************************************************)
EXTENDS Integers, Sequences, FiniteSets, TLC

\* maxCorners of feature_params: 100 in the module, scaled down here.
MaxCorners == 2
\* number of distinct pixel locations a point can have
NumLocs == 2
\* number of process() calls explored
MaxCalls == 3
\* longest serial message explored, in symbols
MaxMsg == 5

\* most rectangles the face detector returns for one image
MaxDets == 2
\* most runs of download-dlib.sh or of a rebuild script
MaxRuns == 3

\* #define INLEN 256
INLEN == 256
\* number of values of the type byte
ByteRange == 256
\* strlen(CATEGORY)
CategoryLen == 17
\* height of the message area below the video: h + 24
MsgAreaHeight == 24

NumColorsShort == MaxCorners - 1

\* self.color = np.random.randint(0,255,(100,3)): as many rows as maxCorners
NumColors == MaxCorners

Loc == 1..NumLocs
\* the camera images: the k-th call is given the k-th image of the stream
Frames == 1..MaxCalls
\* the values of the random colors: only their being equal or different
\* matters, so as many values as rows
Shades == 1..NumColors

VARIABLES
  attrs,     \* names of the attributes that exist on self (hasattr / del)
  old_gray,  \* self.old_gray
  p0,        \* self.p0
  mask,      \* self.mask: the set of line segments drawn into it
  color,     \* self.color
  out,       \* the image handed to outframe.sendCv by the latest call
  sent,      \* number of images sent so far
  calls,     \* number of process() calls made so far
  err,       \* exception raised by the latest call, "none" if it returned
  last,      \* history: what the latest call did
  birth,     \* history: for each point of p0, its index in the acquired set
  drawn,     \* history: segments drawn since the latest acquisition
  \* the Arduino sketch (doc/snip/ardublink.C)
  apc,       \* position in loop(): "read", "parse"
  rx,        \* the bytes readBytesUntil received in this iteration
  instr,     \* the string in instr after instr[len] = 0
  toks,      \* the tokens strtok has still to return
  state,     \* state of the parser
  led,       \* level of LEDPIN
  seen,      \* history: the tokens parsed so far in this iteration
  \* FaceDetector::process (doc/ProgrammerInvFlowLK.dox, lines 483-539)
  fpc,       \* position of the main thread in process(), "idle" outside it
  paste_fut, \* position of the paste task, "none" while there is none
  inimg,     \* the input image: pixel format, height, released by done()
  outframe,  \* the image outframe.get() gives: pixel format and height
  outimg,    \* what is in the output image
  dets,      \* the rectangles the detector returned
  di,        \* position of the loop over dets
  serial,    \* the serial messages sent by this call
  sends,     \* number of outframe.send() made by this call
  ferr,      \* the exception process() ended with, "none" if it returned
  usb,       \* the image outframe.send() passed on
  \* download-dlib.sh (doc/ProgrammerInvFlowLK.dox, lines 292-328)
  tree,      \* the directory facedetector/: what each name is
  spc,       \* position in the script, "idle" outside it
  status,    \* exit status of the latest command or run
  ops,       \* the commands the current or latest run has executed
  runs,      \* number of runs started
  installed  \* history: the tree left by the latest run that installed dlib

flowVars == <<attrs, old_gray, p0, mask, color, out, sent, calls, err, last, birth, drawn>>

blinkVars == <<apc, rx, instr, toks, state, led, seen>>

faceVars == <<fpc, paste_fut, inimg, outframe, outimg, dets, di, serial, sends, ferr, usb>>

dlibVars == <<tree, spc, status, ops, runs, installed>>

vars == <<attrs, old_gray, p0, mask, color, out, sent, calls, err, last, birth, drawn,
          apc, rx, instr, toks, state, led, seen,
          fpc, paste_fut, inimg, outframe, outimg, dets, di, serial, sends, ferr, usb,
          tree, spc, status, ops, runs, installed>>

----------------------------------------------------------------------------
\* Images

\* inframe.getCvBGR(): the camera image, nothing drawn on it
GetCvBGR(f) == [img |-> f, marks |-> {}, trails |-> {}, added |-> FALSE, fps |-> FALSE]

\* cv2.cvtColor(frame, cv2.COLOR_BGR2GRAY)
Gray(frame) == [gray |-> frame.img]

\* value of old_gray while the attribute does not exist
NoGray == [gray |-> 0]

\* value of out before any image was sent
NoFrame == [img |-> 0, marks |-> {}, trails |-> {}, added |-> FALSE, fps |-> FALSE]

\* np.zeros_like(frame): a mask with nothing drawn
ZerosLike(frame) == {}

\* cv2.add(frame, self.mask)
Add(frame, m) == [frame EXCEPT !.trails = @ \cup m, !.added = TRUE]

\* cv2.circle(frame, (a,b), 5, color, -1)
Circle(frame, at, c) == [frame EXCEPT !.marks = @ \cup {[at |-> at, c |-> c]}]

\* cv2.line(mask, (a,b), (c,d), color, 2)
Line(m, a, b, c) == m \cup {[a |-> a, b |-> b, c |-> c]}

\* cv2.putText(frame, fps, ...)
PutText(frame) == [frame EXCEPT !.fps = TRUE]

----------------------------------------------------------------------------
\* Attributes of self

InitAttrs == {"feature_params", "lk_params", "color", "timer"}

HasAttr(a, name) == name \in a

DelAttrKeep(a, name) == a

\* del self.<name>
DelAttr(a, name) == a \ {name}

\* the test of line 181
FirstFrameByMask(a) == ~HasAttr(a, "mask")

FirstFrame(a) == ~HasAttr(a, "old_gray")

AcquireAttrsNoP0(a) == a \cup {"old_gray", "mask"}

\* attributes assigned by the first-frame branch
AcquireAttrs(a) == a \cup {"old_gray", "p0", "mask"}

UpdatePreviousReset(a, good_new) ==
  IF good_new = <<>> THEN a \ {"old_gray"} ELSE a \cup {"old_gray", "p0"}

\* attributes assigned by "update the previous frame and previous points"
UpdatePrevious(a, good_new) == a \cup {"old_gray", "p0"}

----------------------------------------------------------------------------
\* Collaborators

RECURSIVE Distinct(_)
Distinct(s) ==
  IF Len(s) <= 1 THEN TRUE
  ELSE (\A i \in 2..Len(s) : s[i] # s[1]) /\ Distinct(Tail(s))

\* the sequences of at most maxCorners points goodFeaturesToTrack can return
Corners == UNION {{s \in [1..n -> Loc] : Distinct(s)} : n \in 0..MaxCorners}

feature_params_fewer == [maxCorners |-> MaxCorners - 1]

\* self.feature_params (qualityLevel, minDistance and blockSize decide which
\* corners an image has, maxCorners how many of them are returned)
feature_params == [maxCorners |-> MaxCorners]

\* number of corners an image can have: up to one more than maxCorners
Natural == 0..(MaxCorners + 1)

Min(a, b) == IF a <= b THEN a ELSE b

\* cv2.goodFeaturesToTrack(self.old_gray, mask = None, **self.feature_params)
\* on an image that has n corners: the strongest maxCorners of them
GoodFeaturesToTrack(n, params) ==
  {s \in Corners : Len(s) = Min(params.maxCorners, n)}

\* p1 is None
NoneResult == [isNone |-> TRUE, p1 |-> <<>>, st |-> <<>>]

\* cv2.calcOpticalFlowPyrLK(self.old_gray, frame_gray, self.p0, None, ...):
\* a point whose status is 0 keeps its prior location in p1 (the module
\* never reads it)
Tracked(pts) ==
  IF pts = <<>> THEN {NoneResult}
  ELSE {NoneResult} \cup
       {res \in [isNone : {FALSE}, p1 : [1..Len(pts) -> Loc],
                 st : [1..Len(pts) -> {0, 1}]] :
          \A i \in 1..Len(pts) : res.st[i] = 0 => res.p1[i] = pts[i]}

TotalFailureNever(res) == FALSE

\* the test of line 193
TotalFailure(res) == res.isNone

RECURSIVE SelectReversed(_, _)
SelectReversed(pts, st) ==
  IF pts = <<>> THEN <<>>
  ELSE IF st[1] = 1 THEN SelectReversed(Tail(pts), Tail(st)) \o <<pts[1]>>
       ELSE SelectReversed(Tail(pts), Tail(st))

\* pts[st==1]
RECURSIVE Select(_, _)
Select(pts, st) ==
  IF pts = <<>> THEN <<>>
  ELSE IF st[1] = 1 THEN <<pts[1]>> \o Select(Tail(pts), Tail(st))
       ELSE Select(Tail(pts), Tail(st))

----------------------------------------------------------------------------
\* Drawing the tracks

\* number of loop iterations that complete before color[i] is out of range
Drawable(good_new) == IF Len(good_new) <= NumColors THEN Len(good_new) ELSE NumColors

SegmentSwapped(good_new, good_old, i) ==
  [a |-> good_old[i], b |-> good_new[i], c |-> color[i]]

\* the segment drawn in iteration i
Segment(good_new, good_old, i) == [a |-> good_new[i], b |-> good_old[i], c |-> color[i]]

\* the segments drawn by the loop, in order
Segments(good_new, good_old) ==
  [i \in 1..Drawable(good_new) |-> Segment(good_new, good_old, i)]

RECURSIVE DrawLines(_, _, _)
DrawLines(m, segs, n) ==
  IF n = 0 THEN m
  ELSE Line(DrawLines(m, segs, n - 1), segs[n].a, segs[n].b, segs[n].c)

DrawTracksOnly(m, segs) == DrawLines(ZerosLike(m), segs, Len(segs))

\* self.mask after the loop
DrawTracks(m, segs) == DrawLines(m, segs, Len(segs))

RECURSIVE DrawCircles(_, _, _)
DrawCircles(frame, segs, n) ==
  IF n = 0 THEN frame
  ELSE Circle(DrawCircles(frame, segs, n - 1), segs[n].a, segs[n].c)

FirstFrameMarked(frame, corners) ==
  DrawCircles(frame, [i \in 1..Len(corners) |-> [a |-> corners[i], c |-> color[i]]],
              Len(corners))

\* frame as the first-frame branch leaves it: nothing is drawn on it
FirstFrameImage(frame, corners) == frame

NextOldGrayStale(old, frame_gray) == old

\* self.old_gray = frame_gray.copy()
NextOldGray(old, frame_gray) == frame_gray

NextP0Append(old, good_new) == old \o good_new

\* self.p0 = good_new.reshape(-1, 1, 2)
NextP0(old, good_new) == good_new

CompositeBlank(frame, m) == Add(frame, ZerosLike(frame))

\* frame = cv2.add(frame, self.mask) of the restart branch
Composite(frame, m) == Add(frame, m)

----------------------------------------------------------------------------
\* History records

NoCall ==
  [mode |-> "none", prev |-> "none", frame |-> 0, detCalled |-> FALSE, detIn |-> NoGray,
   natural |-> 0, detOut |-> <<>>, trkCalled |-> FALSE, trkRef |-> NoGray, trkCur |-> NoGray,
   trkP0 |-> <<>>, p1 |-> <<>>, st |-> <<>>, segs |-> <<>>, ids |-> <<>>]

TypeOK ==
  /\ attrs \subseteq InitAttrs \cup {"old_gray", "p0", "mask"}
  /\ old_gray \in {NoGray} \cup {[gray |-> f] : f \in Frames}
  /\ Len(p0) <= MaxCorners
  /\ \A i \in 1..Len(p0) : p0[i] \in Loc
  /\ color \in [1..NumColors -> Shades]
  /\ sent \in 0..MaxCalls
  /\ calls \in 0..MaxCalls
  /\ err \in {"none", "AttributeError", "TypeError", "IndexError"}
  /\ last.mode \in {"none", "acquire", "lost", "partial", "raise"}

\* setup()
Setup ==
  /\ apc = "read"
  /\ rx = [bytes |-> <<>>, n |-> 0]
  /\ instr = <<>>
  /\ toks = <<>>
  /\ state = 0
  /\ led = "HIGH"
  /\ seen = <<>>

\* np.random.randint(0,255,(100,3)): every table, up to renaming the values
\* (row i takes a value used by an earlier row, or the first unused one)
RandomColors ==
  {t \in [1..NumColors -> Shades] :
     \A i \in 1..NumColors :
       \/ t[i] = 1
       \/ \E j \in 1..(i - 1) : t[j] = t[i] - 1}

\* jevois::RawImage outimg; an image that refers to no buffer
NoImage ==
  [valid |-> FALSE, fmt |-> "none", h |-> 0, pasted |-> FALSE, title |-> FALSE,
   blank |-> FALSE, count |-> -1, rects |-> <<>>, fps |-> FALSE]

\* the FaceDetector module after its constructor, before any process() call
Constructed ==
  /\ fpc = "idle"
  /\ paste_fut = "none"
  /\ inimg = [fmt |-> "none", h |-> 0, released |-> TRUE]
  /\ outframe = [fmt |-> "none", h |-> 0]
  /\ outimg = NoImage
  /\ dets = <<>>
  /\ di = 0
  /\ serial = <<>>
  /\ sends = 0
  /\ ferr = "none"
  /\ usb = NoImage

\* the names download-dlib.sh reads or writes in the directory facedetector
Names == {"dlib", "dlib-19.15.tar.bz2", "dlib-19.15.tar.bz2.1", "dlib-19.15"}

\* facedetector/ as jevois-create-module leaves it: none of the names exists
EmptyTree == [n \in Names |-> "absent"]

\* value of installed while no run has installed dlib
NoTree == [n \in Names |-> "none"]

\* no script is running
NotRunning ==
  /\ spc = "idle"
  /\ status = 0
  /\ ops = {}
  /\ runs = 0
  /\ installed = NoTree

\* FlowLK after __init__
FlowInit ==
  /\ attrs = InitAttrs
  /\ old_gray = NoGray
  /\ p0 = <<>>
  /\ mask = {}
  /\ out = NoFrame
  /\ sent = 0
  /\ calls = 0
  /\ err = "none"
  /\ last = NoCall
  /\ birth = <<>>
  /\ drawn = {}

Init ==
  /\ FlowInit
  /\ color \in RandomColors
  /\ Setup
  /\ Constructed
  /\ tree = EmptyTree
  /\ NotRunning

\* a call that raises e before anything is stored or sent
Raise(f, e) ==
  /\ err' = e
  /\ last' = [NoCall EXCEPT !.prev = last.mode, !.mode = "raise", !.frame = f]
  /\ UNCHANGED <<attrs, old_gray, p0, mask, color, out, sent, birth, drawn>>

\* process() on the first frame: lines 181-184, then 213-216
Acquire ==
  /\ calls < MaxCalls
  /\ FirstFrame(attrs)
  /\ \E f \in {calls + 1}, n \in Natural :
     \E corners \in GoodFeaturesToTrack(n, feature_params) :
       LET frame == GetCvBGR(f) IN
       /\ old_gray' = Gray(frame)
       /\ p0' = corners
       /\ mask' = ZerosLike(frame)
       /\ attrs' = AcquireAttrs(attrs)
       /\ out' = PutText(FirstFrameImage(frame, corners))
       /\ last' = [NoCall EXCEPT !.prev = last.mode, !.mode = "acquire", !.frame = f,
                     !.detCalled = TRUE, !.detIn = Gray(frame), !.natural = n,
                     !.detOut = corners]
       /\ birth' = [i \in 1..Len(corners) |-> i]
       /\ drawn' = {}
  /\ sent' = sent + 1
  /\ err' = "none"
  /\ calls' = calls + 1
  /\ UNCHANGED color
  /\ UNCHANGED <<blinkVars, faceVars, dlibVars>>

\* process() when the tracker returns None: lines 186-195, then 213-216
TrackLost ==
  /\ calls < MaxCalls
  /\ ~FirstFrame(attrs)
  /\ calls' = calls + 1
  /\ UNCHANGED <<blinkVars, faceVars, dlibVars>>
  /\ \E f \in {calls + 1} :
       LET frame == GetCvBGR(f) IN
       IF ~HasAttr(attrs, "old_gray") \/ ~HasAttr(attrs, "p0") \/ ~HasAttr(attrs, "mask")
       THEN Raise(f, "AttributeError")
       ELSE \E res \in Tracked(p0) :
              /\ TotalFailure(res)
              /\ attrs' = DelAttr(attrs, "old_gray")
              /\ old_gray' = IF HasAttr(attrs', "old_gray") THEN old_gray ELSE NoGray
              /\ out' = PutText(Composite(frame, mask))
              /\ sent' = sent + 1
              /\ err' = "none"
              /\ last' = [NoCall EXCEPT !.prev = last.mode, !.mode = "lost", !.frame = f,
                            !.trkCalled = TRUE, !.trkRef = old_gray,
                            !.trkCur = Gray(frame), !.trkP0 = p0]
              /\ UNCHANGED <<p0, mask, color, birth, drawn>>

\* process() when the tracker returns points: lines 186-190, 196-210, 213-216
TrackPartial ==
  /\ calls < MaxCalls
  /\ ~FirstFrame(attrs)
  /\ calls' = calls + 1
  /\ UNCHANGED <<blinkVars, faceVars, dlibVars>>
  /\ \E f \in {calls + 1} :
       LET frame == GetCvBGR(f) IN
       IF ~HasAttr(attrs, "old_gray") \/ ~HasAttr(attrs, "p0")
       THEN Raise(f, "AttributeError")
       ELSE \E res \in Tracked(p0) :
              /\ ~TotalFailure(res)
              /\ IF res.isNone
                 THEN \* p1[st==1] on None
                      Raise(f, "TypeError")
                 ELSE LET good_new == Select(res.p1, res.st)
                          good_old == Select(p0, res.st)
                          segs == Segments(good_new, good_old)
                      IN  IF Len(good_new) > NumColors \/ ~HasAttr(attrs, "mask")
                          THEN \* self.color[i] out of range after the first iterations
                               /\ err' = IF HasAttr(attrs, "mask") THEN "IndexError"
                                         ELSE "AttributeError"
                               /\ mask' = IF HasAttr(attrs, "mask") THEN DrawTracks(mask, segs)
                                          ELSE mask
                               /\ drawn' = IF HasAttr(attrs, "mask")
                                           THEN drawn \cup {segs[i] : i \in 1..Len(segs)}
                                           ELSE drawn
                               /\ last' = [NoCall EXCEPT !.prev = last.mode, !.mode = "raise", !.frame = f,
                                             !.trkCalled = TRUE, !.trkRef = old_gray,
                                             !.trkCur = Gray(frame), !.trkP0 = p0]
                               /\ UNCHANGED <<attrs, old_gray, p0, color, out, sent, birth>>
                          ELSE /\ mask' = DrawTracks(mask, segs)
                               /\ out' = PutText(Add(DrawCircles(frame, segs, Len(segs)), mask'))
                               /\ attrs' = UpdatePrevious(attrs, good_new)
                               /\ old_gray' = IF HasAttr(attrs', "old_gray")
                                              THEN NextOldGray(old_gray, Gray(frame))
                                              ELSE NoGray
                               /\ p0' = NextP0(p0, good_new)
                               /\ sent' = sent + 1
                               /\ err' = "none"
                               /\ birth' = Select(birth, res.st)
                               /\ drawn' = drawn \cup {segs[i] : i \in 1..Len(segs)}
                               /\ last' = [NoCall EXCEPT !.prev = last.mode, !.mode = "partial", !.frame = f,
                                             !.trkCalled = TRUE, !.trkRef = old_gray,
                                             !.trkCur = Gray(frame), !.trkP0 = p0,
                                             !.p1 = res.p1, !.st = res.st, !.segs = segs,
                                             !.ids = Select(birth, res.st)]
                               /\ UNCHANGED color

Next == Acquire \/ TrackLost \/ TrackPartial

Spec == Init /\ [][Next]_vars

----------------------------------------------------------------------------
\* The Arduino sketch: doc/snip/ardublink.C
\* A message is a sequence of symbols: the texts DO and computer_keyboard
\* ("K"), a character that occurs in neither ("x"), ':' and the delimiters
\* ' ' and '\r' ("CR"). A '\n' ends the read and is not stored.

Symbols == {"DO", "K", "x", ":", " ", "CR"}

\* the delimiters of strtok(instr, " \r\n") that can be in the buffer
Delims == {" ", "CR"}

\* #define CATEGORY "computer_keyboard"
CATEGORY == <<"K">>

\* number of bytes of a symbol
SymLen(c) == IF c = "DO" THEN 2 ELSE IF c = "K" THEN CategoryLen ELSE 1

RECURSIVE Bytes(_)
Bytes(s) == IF s = <<>> THEN 0 ELSE SymLen(s[1]) + Bytes(Tail(s))

Messages == UNION {[1..n -> Symbols] : n \in 0..MaxMsg}

\* SERIAL.readBytesUntil('\n', instr, INLEN): the message, followed when
\* full is TRUE by spaces up to INLEN bytes; n is the number of bytes stored
ReadBytesUntil(msg, full) ==
  [bytes |-> msg, n |-> IF full THEN INLEN ELSE Bytes(msg)]

\* byte len = ...
Byte(n) == n % ByteRange

\* the symbols of s that lie in its first len bytes
RECURSIVE TakeBytes(_, _)
TakeBytes(s, len) ==
  IF s = <<>> \/ SymLen(s[1]) > len THEN <<>>
  ELSE <<s[1]>> \o TakeBytes(Tail(s), len - SymLen(s[1]))

\* instr as a string after instr[len] = 0
Terminate(r, len) == TakeBytes(r.bytes, len)

\* the tokens strtok returns for the string s, in order
RECURSIVE Strtok(_, _)
Strtok(s, cur) ==
  IF s = <<>> THEN (IF cur = <<>> THEN <<>> ELSE <<cur>>)
  ELSE IF s[1] \in Delims
       THEN (IF cur = <<>> THEN <<>> ELSE <<cur>>) \o Strtok(Tail(s), <<>>)
       ELSE Strtok(Tail(s), Append(cur, s[1]))

InitialStateKept(prev) == prev

\* int state = 0: prev is what the variable held when loop() last returned
InitialState(prev) == 0

IsDOPrefix(tok) == tok[1] = "DO"

\* strcmp(tok, "DO") == 0
IsDO(tok) == tok = <<"DO">>

FindColonFirst(tok, i) ==
  IF \E j \in 1..i : tok[j] = ":"
  THEN CHOOSE j \in 1..i : tok[j] = ":" /\ \A k \in 1..(j - 1) : tok[k] # ":"
  ELSE 0

\* i = strlen(tok) - 1; while (i >= 0 && tok[i] != ':') --i;
\* (positions from 1: the result is 0 when there is no ':')
RECURSIVE FindColon(_, _)
FindColon(tok, i) ==
  IF i >= 1 /\ tok[i] # ":" THEN FindColon(tok, i - 1) ELSE i

\* tok after tok[i] = '\0' when a ':' was found
CutAtColon(tok) ==
  LET i == FindColon(tok, Len(tok)) IN
  IF i >= 1 THEN SubSeq(tok, 1, i - 1) ELSE tok

\* strcmp(tok, CATEGORY) == 0
IsCategory(tok) == CutAtColon(tok) = CATEGORY

SwitchForgetful(st, tok) ==
  CASE st = 0 -> IF IsDO(tok) THEN 1 ELSE 1000
    [] st \in {1, 2} -> IF IsCategory(tok) THEN 2 ELSE 1
    [] OTHER -> st

\* the switch statement
Switch(st, tok) ==
  CASE st = 0 -> IF IsDO(tok) THEN 1 ELSE 1000
    [] st = 1 -> IF IsCategory(tok) THEN 2 ELSE 1
    [] OTHER -> st

\* loop(), lines 28-32: read a message, terminate it, take the first token
Read ==
  /\ apc = "read"
  /\ \E msg \in Messages, full \in BOOLEAN :
       LET r == ReadBytesUntil(msg, full)
           len == Byte(r.n)
       IN  /\ rx' = r
           /\ instr' = Terminate(r, len)
           /\ toks' = Strtok(instr', <<>>)
  /\ state' = InitialState(state)
  /\ seen' = <<>>
  /\ apc' = "parse"
  /\ UNCHANGED led
  /\ UNCHANGED <<flowVars, faceVars, dlibVars>>

\* loop(), lines 34-77: one iteration of while (tok)
ParseToken ==
  /\ apc = "parse"
  /\ toks # <<>>
  /\ state' = Switch(state, Head(toks))
  /\ seen' = Append(seen, Head(toks))
  /\ toks' = Tail(toks)
  /\ UNCHANGED <<apc, rx, instr, led>>
  /\ UNCHANGED <<flowVars, faceVars, dlibVars>>

\* loop(), lines 79-84: no token is left, write the LED pin; loop() returns:
\* the buffer is not read again before the next read overwrites it, and
\* state holds its last value until line 32 runs again
WriteLed ==
  /\ apc = "parse"
  /\ toks = <<>>
  /\ led' = IF state = 2 THEN "LOW" ELSE "HIGH"
  /\ apc' = "read"
  /\ rx' = [bytes |-> <<>>, n |-> 0]
  /\ instr' = <<>>
  /\ seen' = <<>>
  /\ UNCHANGED <<toks, state>>
  /\ UNCHANGED <<flowVars, faceVars, dlibVars>>

BlinkInit == Init /\ color = [i \in 1..NumColors |-> 1]

BlinkNext == Read \/ ParseToken \/ WriteLed

SpecBlink == BlinkInit /\ [][BlinkNext]_vars

----------------------------------------------------------------------------
\* FaceDetector::process: doc/ProgrammerInvFlowLK.dox, lines 483-539
\* The main thread and the paste task started by std::async take steps in
\* any order; paste_fut.get() waits for the task.

\* pixel formats: V4L2_PIX_FMT_YUYV and one other
Formats == {"YUYV", "MJPG"}

\* heights of the camera image
Heights == {240, 264}

\* heights of the output image: with and without the message area
OutHeights == Heights \cup {h + MsgAreaHeight : h \in Heights}

\* dlib::rectangle values
Rects ==
  {[left |-> 10, top |-> 20, width |-> 40, height |-> 50],
   [left |-> 100, top |-> 60, width |-> 31, height |-> 31]}

\* the vectors itsDetector(dlibimg) can return
Detections == UNION {[1..n -> Rects] : n \in 0..MaxDets}

\* inimg.require("input", inimg.width, inimg.height, V4L2_PIX_FMT_YUYV)
InputOK(img) == img.fmt = "YUYV"

OutputOKAnyHeight(o, h) == o.fmt = "YUYV"

\* outimg.require("output", outimg.width, h + 24, V4L2_PIX_FMT_YUYV)
OutputOK(o, h) == o.fmt = "YUYV" /\ o.h = h + MsgAreaHeight

JoinedAtOnce(f) == TRUE

\* paste_fut.get() returns or throws: the task has run to its end
Joined(f) == f \in {"ready", "failed"}

CountTextOff(d) == Len(d) + 1

\* std::to_string(dets.size())
CountText(d) == Len(d)

LoopDoneEarly(i, d) == i >= Len(d)

\* for (auto const & r : dets) has no element left
LoopDone(i, d) == i > Len(d)

\* sendSerialImg2D(w, h, r.left() - r.width() / 2, r.top() - r.height() / 2,
\*                 r.width(), r.height(), "face")
SerialImg2D(r) ==
  [id |-> "face", x |-> r.left - (r.width \div 2), y |-> r.top - (r.height \div 2),
   w |-> r.width, h |-> r.height]

\* what the next statement of the main thread reads and writes
MainAccess(pc) ==
  CASE pc = "require" -> {[obj |-> "inimg", w |-> FALSE]}
    [] pc = "async" -> {[obj |-> "outimg", w |-> TRUE]}
    [] pc = "convert" -> {[obj |-> "inimg", w |-> FALSE]}
    [] pc = "done" -> {[obj |-> "inimg", w |-> TRUE]}
    [] pc \in {"count", "rects"} -> {[obj |-> "outimg", w |-> TRUE]}
    [] pc = "send" -> {[obj |-> "outimg", w |-> FALSE]}
    [] OTHER -> {}

\* what the next statement of the paste task reads and writes
PasteAccess(pc) ==
  CASE pc = "get" -> {[obj |-> "outimg", w |-> TRUE]}
    [] pc = "require" -> {[obj |-> "outimg", w |-> FALSE]}
    [] pc = "paste" -> {[obj |-> "inimg", w |-> FALSE], [obj |-> "outimg", w |-> TRUE]}
    [] pc \in {"title", "blank"} -> {[obj |-> "outimg", w |-> TRUE]}
    [] OTHER -> {}

\* process() is entered: inimg = inframe.get(); timer.start()
Get ==
  /\ fpc = "idle"
  /\ \E f \in Formats, h \in Heights, of \in Formats, oh \in OutHeights :
       /\ inimg' = [fmt |-> f, h |-> h, released |-> FALSE]
       /\ outframe' = [fmt |-> of, h |-> oh]
  /\ fpc' = "require"
  /\ paste_fut' = "none"
  /\ outimg' = NoImage
  /\ dets' = <<>>
  /\ di' = 0
  /\ serial' = <<>>
  /\ sends' = 0
  /\ ferr' = "none"
  /\ usb' = NoImage
  /\ UNCHANGED <<flowVars, blinkVars, dlibVars>>

\* lines 493-494
RequireInput ==
  /\ fpc = "require"
  /\ IF InputOK(inimg)
     THEN fpc' = "async" /\ UNCHANGED ferr
     ELSE fpc' = "idle" /\ ferr' = "input"
  /\ UNCHANGED <<paste_fut, inimg, outframe, outimg, dets, di, serial, sends, usb>>
  /\ UNCHANGED <<flowVars, blinkVars, dlibVars>>

\* lines 497-498: jevois::RawImage outimg; std::async(std::launch::async, ...)
Launch ==
  /\ fpc = "async"
  /\ outimg' = NoImage
  /\ paste_fut' = "get"
  /\ fpc' = "convert"
  /\ UNCHANGED <<inimg, outframe, dets, di, serial, sends, ferr, usb>>
  /\ UNCHANGED <<flowVars, blinkVars, dlibVars>>

\* lines 511-515
Convert ==
  /\ fpc = "convert"
  /\ fpc' = "detect"
  /\ UNCHANGED <<paste_fut, inimg, outframe, outimg, dets, di, serial, sends, ferr, usb>>
  /\ UNCHANGED <<flowVars, blinkVars, dlibVars>>

\* line 518
Detect ==
  /\ fpc = "detect"
  /\ dets' \in Detections
  /\ fpc' = "join"
  /\ UNCHANGED <<paste_fut, inimg, outframe, outimg, di, serial, sends, ferr, usb>>
  /\ UNCHANGED <<flowVars, blinkVars, dlibVars>>

\* line 521: paste_fut.get() returns, or throws what the task threw
Join ==
  /\ fpc = "join"
  /\ Joined(paste_fut)
  /\ IF paste_fut = "failed"
     THEN fpc' = "idle" /\ ferr' = "output"
     ELSE fpc' = "done" /\ UNCHANGED ferr
  /\ UNCHANGED <<paste_fut, inimg, outframe, outimg, dets, di, serial, sends, usb>>
  /\ UNCHANGED <<flowVars, blinkVars, dlibVars>>

\* line 521: inframe.done()
Done ==
  /\ fpc = "done"
  /\ inimg' = [inimg EXCEPT !.released = TRUE]
  /\ fpc' = "count"
  /\ UNCHANGED <<paste_fut, outframe, outimg, dets, di, serial, sends, ferr, usb>>
  /\ UNCHANGED <<flowVars, blinkVars, dlibVars>>

\* lines 524-525: the text "Detected N faces"
WriteCount ==
  /\ fpc = "count"
  /\ outimg' = [outimg EXCEPT !.count = CountText(dets)]
  /\ di' = 1
  /\ fpc' = "rects"
  /\ UNCHANGED <<paste_fut, inimg, outframe, dets, serial, sends, ferr, usb>>
  /\ UNCHANGED <<flowVars, blinkVars, dlibVars>>

\* lines 527-531: one iteration of the loop over dets
DrawRect ==
  /\ fpc = "rects"
  /\ ~LoopDone(di, dets)
  /\ outimg' = [outimg EXCEPT !.rects = Append(@, dets[di])]
  /\ serial' = Append(serial, SerialImg2D(dets[di]))
  /\ di' = di + 1
  /\ UNCHANGED <<fpc, paste_fut, inimg, outframe, dets, sends, ferr, usb>>
  /\ UNCHANGED <<flowVars, blinkVars, dlibVars>>

\* lines 534-535: the loop has ended; the fps text
ShowFps ==
  /\ fpc = "rects"
  /\ LoopDone(di, dets)
  /\ outimg' = [outimg EXCEPT !.fps = TRUE]
  /\ fpc' = "send"
  /\ UNCHANGED <<paste_fut, inimg, outframe, dets, di, serial, sends, ferr, usb>>
  /\ UNCHANGED <<flowVars, blinkVars, dlibVars>>

\* line 538: outframe.send(); process() returns
Send ==
  /\ fpc = "send"
  /\ usb' = outimg
  /\ sends' = sends + 1
  /\ fpc' = "idle"
  /\ UNCHANGED <<paste_fut, inimg, outframe, outimg, dets, di, serial, ferr>>
  /\ UNCHANGED <<flowVars, blinkVars, dlibVars>>

\* line 499: outimg = outframe.get()
PasteGet ==
  /\ paste_fut = "get"
  /\ outimg' = [outimg EXCEPT !.valid = TRUE, !.fmt = outframe.fmt, !.h = outframe.h]
  /\ paste_fut' = "require"
  /\ UNCHANGED <<fpc, inimg, outframe, dets, di, serial, sends, ferr, usb>>
  /\ UNCHANGED <<flowVars, blinkVars, dlibVars>>

\* line 500: a failed require ends the task with an exception
PasteRequire ==
  /\ paste_fut = "require"
  /\ paste_fut' = IF OutputOK(outimg, inimg.h) THEN "paste" ELSE "failed"
  /\ UNCHANGED <<fpc, inimg, outframe, outimg, dets, di, serial, sends, ferr, usb>>
  /\ UNCHANGED <<flowVars, blinkVars, dlibVars>>

\* line 503: the input image covers the rows 0..h-1, whatever was there
PastePaste ==
  /\ paste_fut = "paste"
  /\ outimg' = [outimg EXCEPT !.pasted = TRUE, !.title = FALSE, !.rects = <<>>,
                              !.fps = FALSE]
  /\ paste_fut' = "title"
  /\ UNCHANGED <<fpc, inimg, outframe, dets, di, serial, sends, ferr, usb>>
  /\ UNCHANGED <<flowVars, blinkVars, dlibVars>>

\* line 504
PasteTitle ==
  /\ paste_fut = "title"
  /\ outimg' = [outimg EXCEPT !.title = TRUE]
  /\ paste_fut' = "blank"
  /\ UNCHANGED <<fpc, inimg, outframe, dets, di, serial, sends, ferr, usb>>
  /\ UNCHANGED <<flowVars, blinkVars, dlibVars>>

\* line 507: the rows from h on are filled, whatever was there
PasteBlank ==
  /\ paste_fut = "blank"
  /\ outimg' = [outimg EXCEPT !.blank = TRUE, !.count = -1]
  /\ paste_fut' = "ready"
  /\ UNCHANGED <<fpc, inimg, outframe, dets, di, serial, sends, ferr, usb>>
  /\ UNCHANGED <<flowVars, blinkVars, dlibVars>>

FaceInit == Init /\ color = [i \in 1..NumColors |-> 1]

FaceNext ==
  \/ Get \/ RequireInput \/ Launch \/ Convert \/ Detect \/ Join \/ Done
  \/ WriteCount \/ DrawRect \/ ShowFps \/ Send
  \/ PasteGet \/ PasteRequire \/ PastePaste \/ PasteTitle \/ PasteBlank

SpecFace == FaceInit /\ [][FaceNext]_vars

----------------------------------------------------------------------------
\* download-dlib.sh and the guard of the rebuild scripts:
\* doc/ProgrammerInvFlowLK.dox, lines 292-328
\* The script has no set -e: a command that fails does not end the script.

\* dlib-${ver}.tar.bz2
Tarball == "dlib-19.15.tar.bz2"

\* the name wget saves to when dlib-${ver}.tar.bz2 exists already
Tarball1 == "dlib-19.15.tar.bz2.1"

\* dlib-${ver}, the directory the archive unpacks to
Unpacked == "dlib-19.15"

\* the trees the first run can find: dlib can be there as a directory or as
\* a file, and an archive or an unpacked directory can be left from before
Trees ==
  {t \in [Names -> {"absent", "file", "dir"}] :
     /\ t[Tarball] \in {"absent", "file"}
     /\ t[Tarball1] = "absent"
     /\ t[Unpacked] \in {"absent", "dir"}}

\* [ -d name ]; "nested" is the directory dlib with dlib-19.15 moved into it
IsDir(t, n) == t[n] \in {"dir", "nested"}

AlreadyPresentNever(t) == FALSE

\* if [ -d dlib ]
AlreadyPresent(t) == IsDir(t, "dlib")

\* ./download-dlib.sh is started
RunScript ==
  /\ spc = "idle"
  /\ runs < MaxRuns
  /\ runs' = runs + 1
  /\ spc' = "guard"
  /\ ops' = {}
  /\ UNCHANGED <<tree, status, installed>>
  /\ UNCHANGED <<flowVars, blinkVars, faceVars>>

\* rebuild-host.sh: if [ ! -d dlib ]; then ./download-dlib.sh; fi
Rebuild ==
  /\ spc = "idle"
  /\ runs < MaxRuns
  /\ runs' = runs + 1
  /\ ops' = {}
  /\ IF ~IsDir(tree, "dlib")
     THEN spc' = "guard" /\ UNCHANGED status
     ELSE spc' = "idle" /\ status' = 0
  /\ UNCHANGED <<tree, installed>>
  /\ UNCHANGED <<flowVars, blinkVars, faceVars>>

\* lines 298-301
Guard ==
  /\ spc = "guard"
  /\ IF AlreadyPresent(tree)
     THEN spc' = "idle" /\ status' = 0 /\ ops' = ops \cup {"echo"}
     ELSE spc' = "wget" /\ UNCHANGED <<status, ops>>
  /\ UNCHANGED <<tree, runs, installed>>
  /\ UNCHANGED <<flowVars, blinkVars, faceVars>>

\* line 303: the download succeeds or fails
Wget ==
  /\ spc = "wget"
  /\ \E ok \in BOOLEAN :
       LET target == IF tree[Tarball] = "absent" THEN Tarball ELSE Tarball1 IN
       /\ tree' = IF ok THEN [tree EXCEPT ![target] = "file"] ELSE tree
       /\ status' = IF ok THEN 0 ELSE 1
  /\ ops' = ops \cup {"wget"}
  /\ spc' = "tar"
  /\ UNCHANGED <<runs, installed>>
  /\ UNCHANGED <<flowVars, blinkVars, faceVars>>

\* line 304
Tar ==
  /\ spc = "tar"
  /\ IF tree[Tarball] = "file"
     THEN tree' = [tree EXCEPT ![Unpacked] = "dir"] /\ status' = 0
     ELSE tree' = tree /\ status' = 1
  /\ ops' = ops \cup {"tar"}
  /\ spc' = "rm"
  /\ UNCHANGED <<runs, installed>>
  /\ UNCHANGED <<flowVars, blinkVars, faceVars>>

\* line 305
Rm ==
  /\ spc = "rm"
  /\ tree' = [tree EXCEPT ![Tarball] = "absent"]
  /\ status' = IF tree[Tarball] = "file" THEN 0 ELSE 1
  /\ ops' = ops \cup {"rm"}
  /\ spc' = "mv"
  /\ UNCHANGED <<runs, installed>>
  /\ UNCHANGED <<flowVars, blinkVars, faceVars>>

\* line 306: the script ends with the status of mv
Mv ==
  /\ spc = "mv"
  /\ tree' =
       IF tree[Unpacked] # "dir" \/ tree["dlib"] = "file" THEN tree
       ELSE IF tree["dlib"] = "absent"
            THEN [tree EXCEPT !["dlib"] = "dir", ![Unpacked] = "absent"]
            ELSE [tree EXCEPT !["dlib"] = "nested", ![Unpacked] = "absent"]
  /\ status' = IF tree[Unpacked] # "dir" \/ tree["dlib"] = "file" THEN 1 ELSE 0
  /\ installed' = IF status' = 0 THEN tree' ELSE installed
  /\ ops' = ops \cup {"mv"}
  /\ spc' = "idle"
  /\ UNCHANGED runs
  /\ UNCHANGED <<flowVars, blinkVars, faceVars>>

DlibInit ==
  /\ FlowInit
  /\ color = [i \in 1..NumColors |-> 1]
  /\ Setup
  /\ Constructed
  /\ tree \in Trees
  /\ NotRunning

DlibNext == RunScript \/ Rebuild \/ Guard \/ Wget \/ Tar \/ Rm \/ Mv

SpecDlib == DlibInit /\ [][DlibNext]_vars

----------------------------------------------------------------------------
\* States of the controller

TRACKING == HasAttr(attrs, "old_gray")

UNINITIALIZED == ~HasAttr(attrs, "old_gray")

\* a process() call is made in this step
Called == calls' = calls + 1

\* the grayscale of the frame the latest call was given
FrameGray(l) == Gray(GetCvBGR(l.frame))

----------------------------------------------------------------------------
\* Properties

C2_IndexAlignment ==
  (TRACKING /\ last.mode \in {"acquire", "partial"}) =>
    Len(p0) = Cardinality(DOMAIN color)

\* C3: every segment and every marker drawn for a surviving point has the
\* color that the point had at acquisition (the color at its index in the
\* acquired set), whatever happened to the other points.
C3_ColorStability ==
  last.mode = "partial" =>
    \A k \in 1..Len(last.segs) :
      /\ last.segs[k].c = color[last.ids[k]]
      /\ [at |-> last.segs[k].a, c |-> color[last.ids[k]]] \in out.marks

\* C4: a call made while old_gray does not exist leaves the controller
\* tracking, with old_gray the grayscale of the frame and p0 the detector's
\* output for that grayscale, and does not invoke the tracker.
C4_Initialization ==
  [][(UNINITIALIZED /\ Called) =>
       /\ TRACKING'
       /\ HasAttr(attrs', "p0")
       /\ old_gray' = FrameGray(last')
       /\ last'.detCalled
       /\ last'.detIn = old_gray'
       /\ p0' = last'.detOut
       /\ ~last'.trkCalled]_vars

C4_Witness ==
  /\ last.mode = "acquire"
  /\ last.prev = "none"
  /\ TRACKING
  /\ Len(p0) = MaxCorners

\* C5: the call in which the tracker returns None leaves the mask as it was
\* and sends the frame with that mask added, so every segment drawn since
\* the latest acquisition is in the image sent.
C5_TrailsSurviveLoss ==
  [][(Called /\ last'.mode = "lost") =>
       /\ mask' = mask
       /\ out' = PutText(Add(GetCvBGR(last'.frame), mask))
       /\ drawn \subseteq out'.trails]_vars

C5_Witness ==
  /\ last.mode = "lost"
  /\ drawn # {}
  /\ out.trails = drawn
  /\ mask = drawn

\* C6 as stated: when every point of a per-point result is invalid, the
\* controller is uninitialized after the call and the next call acquires.
C6_EmptySurvivorsReset ==
  [][(last.mode = "partial" /\ p0 = <<>>) =>
       /\ UNINITIALIZED
       /\ Called => last'.mode = "acquire"]_vars

\* C6 amended: when every point of a per-point result is invalid, the
\* controller is still tracking after the call, with an empty p0 and the
\* frame's grayscale as old_gray, and the next call invokes the tracker
\* with the empty p0 and does not invoke the detector.
C6_EmptySurvivorsKeepTracking ==
  [][/\ (Called /\ last'.mode = "partial" /\ p0' = <<>>) =>
          (TRACKING' /\ old_gray' = FrameGray(last'))
     /\ (last.mode = "partial" /\ p0 = <<>> /\ Called) =>
          (last'.trkCalled /\ last'.trkP0 = <<>> /\ ~last'.detCalled)]_vars

C6_Witness ==
  /\ last.prev = "partial"
  /\ last.trkCalled
  /\ last.trkP0 = <<>>

\* C7: a call in which the detector returns no point does not fail and
\* leaves the controller tracking with an empty p0; the call after it does
\* not fail either and leaves the controller uninitialized, so that the
\* call after that one acquires again.
C7_EmptyAcquisition ==
  [][/\ (Called /\ last'.mode = "acquire" /\ last'.detOut = <<>>) =>
          (err' = "none" /\ sent' = sent + 1 /\ TRACKING' /\ p0' = <<>>)
     /\ (last.mode = "acquire" /\ p0 = <<>> /\ Called) =>
          (err' = "none" /\ sent' = sent + 1 /\ UNINITIALIZED')
     /\ (last.mode = "lost" /\ last.prev = "acquire" /\ last.trkP0 = <<>> /\ Called) =>
          (err' = "none" /\ last'.detCalled)]_vars

C7_Witness ==
  /\ last.mode = "lost"
  /\ last.prev = "acquire"
  /\ last.trkP0 = <<>>
  /\ err = "none"
  /\ sent = calls

\* C8 as stated: after every call p0 exists if and only if old_gray exists.
C8_JointLifecycle ==
  HasAttr(attrs, "p0") <=> HasAttr(attrs, "old_gray")

\* C8 amended: after every call p0 exists whenever old_gray exists; both are
\* created by the same acquiring call; the call in which the tracker returns
\* None discards old_gray only, and p0 stays stored as it was.
C8_ReferenceImpliesPoints ==
  [][/\ HasAttr(attrs', "old_gray") => HasAttr(attrs', "p0")
     /\ (~HasAttr(attrs, "old_gray") /\ HasAttr(attrs', "old_gray")) =>
          (last'.mode = "acquire" /\ p0' = last'.detOut)
     /\ (~HasAttr(attrs, "p0") /\ HasAttr(attrs', "p0")) =>
          (last'.mode = "acquire" /\ HasAttr(attrs', "old_gray"))
     /\ (HasAttr(attrs, "old_gray") /\ ~HasAttr(attrs', "old_gray")) =>
          (last'.mode = "lost" /\ HasAttr(attrs', "p0") /\ p0' = p0)]_vars

C8_Witness ==
  /\ last.mode = "lost"
  /\ ~HasAttr(attrs, "old_gray")
  /\ HasAttr(attrs, "p0")
  /\ p0 # <<>>

C10_AlwaysAFrame ==
  /\ err = "none"
  /\ sent = calls
  /\ calls > 0 => (out.img = last.frame /\ out.fps)

C10_Witness ==
  /\ calls >= 3
  /\ sent = calls
  /\ last.mode = "lost"
  /\ last.prev = "partial"
  /\ last.trkP0 # <<>>

\* the indices of the points the tracker found
Valid(st) == {i \in 1..Len(st) : st[i] = 1}

\* the index of the k-th point the tracker found
KthValid(st, k) ==
  CHOOSE i \in Valid(st) : Cardinality({j \in Valid(st) : j <= i}) = k

\* C11 as stated: the image sent by an acquiring call is the input frame
\* with nothing changed.
C11_FirstFrameUnmodified ==
  last.mode = "acquire" => out = GetCvBGR(last.frame)

\* C11 amended: the image sent by an acquiring call is the input frame with
\* the frame rate text written on it and nothing else: no segment, no marker
\* and no mask added.
C11_FirstFrameOnlyText ==
  last.mode = "acquire" =>
    /\ out.img = last.frame
    /\ out.marks = {}
    /\ out.trails = {}
    /\ ~out.added
    /\ out.fps

C11_Witness ==
  /\ last.mode = "acquire"
  /\ last.prev = "lost"
  /\ Len(p0) = MaxCorners
  /\ out.fps
  /\ out.marks = {}

\* C12: after an acquiring call p0 has min(maxCorners, number of corners
\* the image has) points, hence between 0 and maxCorners.
C12_AcquisitionSize ==
  last.mode = "acquire" =>
    /\ Len(p0) = Min(MaxCorners, last.natural)
    /\ Len(p0) \in 0..MaxCorners

C12_Witness ==
  /\ last.mode = "acquire"
  /\ last.natural > MaxCorners
  /\ Len(p0) = MaxCorners

\* C14: after a call in which the tracker returns points, p0 is the
\* returned locations whose status is 1, in their order, and the k-th
\* segment joins the old and the new location of the same point, the k-th
\* one whose status is 1.
C14_FilteringKeepsOrder ==
  [][(Called /\ last'.mode = "partial") =>
       /\ Len(p0') = Cardinality(Valid(last'.st))
       /\ \A k \in 1..Len(p0') :
            LET i == KthValid(last'.st, k) IN
            /\ p0'[k] = last'.p1[i]
            /\ last'.segs[k].a = last'.p1[i]
            /\ last'.segs[k].b = p0[i]
            /\ birth'[k] = birth[i]]_vars

C14_Witness ==
  /\ last.mode = "partial"
  /\ Len(last.st) >= 2
  /\ last.st[1] = 0
  /\ last.st[2] = 1
  /\ p0 = <<last.p1[2]>>
  /\ last.segs[1].b = last.trkP0[2]

\* C15: a call in which the tracker returns points adds to the mask one
\* segment per point whose status is 1, from its prior to its new location,
\* and draws one marker at each such new location on the image sent;
\* nothing is drawn for a point whose status is 0.
C15_TrailDrawing ==
  [][(Called /\ last'.mode = "partial") =>
       LET V == Valid(last'.st)
           segs == last'.segs
       IN  /\ Len(segs) = Cardinality(V)
           /\ mask' = mask \cup {segs[k] : k \in 1..Len(segs)}
           /\ {[a |-> sg.a, b |-> sg.b] : sg \in mask' \ mask} \subseteq
                {[a |-> last'.p1[i], b |-> p0[i]] : i \in V}
           /\ \A i \in V : \E sg \in mask' : sg.a = last'.p1[i] /\ sg.b = p0[i]
           /\ {m.at : m \in out'.marks} = {last'.p1[i] : i \in V}
           /\ out'.trails = mask']_vars

C15_Witness ==
  /\ last.mode = "partial"
  /\ Cardinality(Valid(last.st)) = 1
  /\ Len(last.st) = 2
  /\ Cardinality(out.marks) = 1
  /\ last.segs[1].a # last.segs[1].b
  /\ last.segs[1] \in mask

\* C16: a call in which the tracker returns points leaves the controller
\* tracking with the grayscale of the frame of that call as old_gray; a call
\* made while tracking that ends otherwise does not leave another old_gray.
C16_ReferenceAdvance ==
  [][(Called /\ TRACKING) =>
       IF last'.mode = "partial"
       THEN TRACKING' /\ old_gray' = FrameGray(last') /\ old_gray' # old_gray
       ELSE ~TRACKING' \/ old_gray' = old_gray]_vars

C16_Witness ==
  /\ last.mode = "partial"
  /\ last.prev = "partial"
  /\ TRACKING
  /\ old_gray = [gray |-> calls]
  /\ last.trkRef = [gray |-> calls - 1]

\* the points left by a call that acquired or tracked
PointsLeftBy(l) ==
  IF l.mode = "acquire" THEN l.detOut ELSE [k \in 1..Len(l.segs) |-> l.segs[k].a]

\* C17: whenever the tracker is invoked, the call before acquired or got
\* points from the tracker, and the tracker is given the grayscale of that
\* call's frame, the points that call left and the grayscale of the new
\* frame; nothing from before a call in which the tracker returned None.
C17_TrackerInputs ==
  [][(Called /\ last'.trkCalled) =>
       /\ last.mode \in {"acquire", "partial"}
       /\ last'.trkRef = FrameGray(last)
       /\ last'.trkP0 = PointsLeftBy(last)
       /\ last'.trkCur = FrameGray(last')]_vars

C17_Witness ==
  /\ last.trkCalled
  /\ last.mode = "partial"
  /\ last.prev = "partial"
  /\ last.trkP0 # <<>>
  /\ last.trkRef = [gray |-> 2]

\* C18: p0 never has more points than the color table has rows, so every
\* index used to look up a color while drawing is a row of the table.
C18_ColorIndexInRange ==
  /\ Len(p0) <= Cardinality(DOMAIN color)
  /\ \A k \in 1..Len(last.segs) : k \in DOMAIN color
  /\ err # "IndexError"

C18_Witness ==
  /\ last.mode = "partial"
  /\ Len(last.segs) = Cardinality(DOMAIN color)
  /\ Len(p0) = MaxCorners

\* C19: a call that does not acquire leaves at most as many points in p0 as
\* there were; only an acquiring call adds points.
C19_PointSetNeverGrows ==
  [][Called =>
       /\ last'.mode # "acquire" => Len(p0') <= Len(p0)
       /\ Len(p0') > Len(p0) => (last'.mode = "acquire" /\ p0' = last'.detOut)]_vars

C19_Witness ==
  /\ last.mode = "partial"
  /\ last.prev = "partial"
  /\ Len(p0) < Len(last.trkP0)
  /\ p0 # <<>>

\* the text of a token before its last ':', the whole token if it has none
CategoryName(tok) ==
  IF \E i \in 1..Len(tok) : tok[i] = ":"
  THEN LET i == CHOOSE j \in 1..Len(tok) :
                  tok[j] = ":" /\ \A k \in (j + 1)..Len(tok) : tok[k] # ":"
       IN  SubSeq(tok, 1, i - 1)
  ELSE tok

\* the first token of the message is DO and a later one names CATEGORY
Hit(msg) ==
  LET t == Strtok(msg, <<>>) IN
  /\ Len(t) >= 2
  /\ t[1] = <<"DO">>
  /\ \E k \in 2..Len(t) : CategoryName(t[k]) = CATEGORY

\* a token is parsed in this step
TokenParsed == apc = "parse" /\ Len(seen') = Len(seen) + 1

\* C13: at the end of each loop() iteration the LED is on (pin LOW) if and
\* only if the first token of the received message is DO and a later token
\* names CATEGORY; otherwise it is off (pin HIGH).
C13_LedShowsHit ==
  [][(apc = "parse" /\ apc' = "read") =>
       (led' = (IF Hit(rx.bytes) THEN "LOW" ELSE "HIGH"))]_vars

\* C20: from state 0 the first token moves the parser to state 1 if it is
\* exactly DO and to state 1000 otherwise; in state 1000 every further token
\* of the message leaves the parser in state 1000.
C20_FirstToken ==
  [][/\ (TokenParsed /\ seen = <<>>) =>
          (state = 0 /\ state' = IF seen'[1] = <<"DO">> THEN 1 ELSE 1000)
     /\ (TokenParsed /\ state = 1000) => state' = 1000]_vars

C20_Witness ==
  /\ apc = "parse"
  /\ state = 1000
  /\ Len(seen) >= 2
  /\ seen[1] # <<"DO">>
  /\ seen[2] \in {<<"DO">>, CATEGORY, <<"K", ":", "x">>}

\* the positions of ':' in a token
Colons(tok) == {i \in 1..Len(tok) : tok[i] = ":"}

\* the greatest element of a non-empty set of numbers
Max(S) == CHOOSE i \in S : \A j \in S : j <= i

\* texts that can follow the ':' of a token: no ':' and no delimiter
ScoreTexts == UNION {[1..n -> {"DO", "K", "x"}] : n \in 0..2}

\* loop() returns in this step
LoopReturns == apc = "parse" /\ apc' = "read"

\* loop() is entered and reads a message in this step
LoopReads == apc = "read" /\ apc' = "parse"

\* C21: in state 1 a token whose category is CATEGORY moves the parser to
\* state 2 and any other token leaves it in state 1; in state 2 every token
\* leaves it in state 2; so when loop() returns after a first token DO and
\* a later token of category CATEGORY, the LED pin is written LOW whatever
\* tokens came after.
C21_HitIsSticky ==
  [][/\ (TokenParsed /\ state = 1) =>
          state' = (IF CategoryName(Head(toks)) = CATEGORY THEN 2 ELSE 1)
     /\ (TokenParsed /\ state = 2) => state' = 2
     /\ (LoopReturns /\ Len(seen) >= 2 /\ seen[1] = <<"DO">>
           /\ \E k \in 2..Len(seen) : CategoryName(seen[k]) = CATEGORY) =>
          led' = "LOW"]_vars

C21_Witness ==
  /\ apc = "parse"
  /\ state = 2
  /\ toks = <<>>
  /\ Len(seen) = 3
  /\ seen[1] = <<"DO">>
  /\ CategoryName(seen[2]) = CATEGORY
  /\ CategoryName(seen[3]) # CATEGORY

\* C22: in state 1 a token that has a ':' is compared to CATEGORY by its
\* text before the last ':', a token that has none as a whole, and the
\* resulting state is the same whatever text follows that ':'.
C22_CategoryExtraction ==
  [][(TokenParsed /\ state = 1) =>
       LET tok == Head(toks) IN
       IF Colons(tok) = {}
       THEN state' = (IF tok = CATEGORY THEN 2 ELSE 1)
       ELSE LET i == Max(Colons(tok)) IN
            /\ state' = (IF SubSeq(tok, 1, i - 1) = CATEGORY THEN 2 ELSE 1)
            /\ \A score \in ScoreTexts :
                 Switch(1, SubSeq(tok, 1, i) \o score) = state']_vars

C22_Witness ==
  /\ apc = "parse"
  /\ Len(seen) = 2
  /\ state = 1
  /\ seen[1] = <<"DO">>
  /\ seen[2] = <<"K", ":", ":">>

\* the LED level for the bytes read in one iteration: LOW if and only if
\* the string that ends at the terminator is a hit
LevelFor(r) == IF Hit(TakeBytes(r.bytes, r.n % ByteRange)) THEN "LOW" ELSE "HIGH"

\* C23: every loop() iteration starts parsing in state 0 whatever state the
\* iteration before ended in, and the LED level written when loop() returns
\* is a function of the bytes read in that iteration.
C23_NoMemoryAcrossMessages ==
  [][/\ LoopReads => state' = 0
     /\ LoopReturns => led' = LevelFor(rx)]_vars

C23_Witness ==
  /\ apc = "parse"
  /\ toks = <<>>
  /\ led = "LOW"
  /\ state = 1000
  /\ seen # <<>>

\* C24: for every number n of bytes received, 0 <= n <= INLEN, the string
\* in instr after the terminator is written is the n received bytes, and
\* these are what is parsed.
C24_TerminatorAtReceivedLength ==
  apc = "parse" =>
    /\ instr = TakeBytes(rx.bytes, rx.n)
    /\ seen \o toks = Strtok(rx.bytes, <<>>)

\* the two threads are about to access the same object, one of them writing
Conflict ==
  \E a \in MainAccess(fpc), b \in PasteAccess(paste_fut) :
    a.obj = b.obj /\ (a.w \/ b.w)

\* process() ends in this step, by returning or by an exception
ProcessEnds == fpc # "idle" /\ fpc' = "idle"

\* the output image has the format the paste task requires
OutputFits == outframe.fmt = "YUYV" /\ outframe.h = inimg.h + MsgAreaHeight

\* C25: the main thread and the paste task are never about to access outimg
\* or inimg at the same time with one of them writing; when the main thread
\* is at inframe.done() or at any later statement, the paste task has run
\* to its end.
C25_PasteJoinedBeforeSharing ==
  /\ ~Conflict
  /\ fpc \in {"done", "count", "rects", "send"} => paste_fut = "ready"
  /\ inimg.released => paste_fut \in {"none", "ready"}

C25_Witness ==
  /\ fpc = "count"
  /\ paste_fut = "ready"
  /\ inimg.released
  /\ outimg.pasted
  /\ outimg.blank

\* C26: outframe.send() is called only at the end of process(), once, when
\* the paste task has ended and the detection count, one rectangle per
\* detection and the fps text are in the output image; a call that returns
\* without exception has called it exactly once.
C26_SendIsLast ==
  [][/\ (fpc # "idle" /\ sends' # sends) =>
          /\ fpc = "send"
          /\ sends' = 1
          /\ paste_fut = "ready"
          /\ outimg.pasted /\ outimg.title /\ outimg.blank
          /\ outimg.count = Len(dets)
          /\ Len(outimg.rects) = Len(dets)
          /\ outimg.fps
          /\ usb' = outimg
     /\ (ProcessEnds /\ ferr' = "none") => sends' = 1]_vars

C26_Witness ==
  /\ fpc = "idle"
  /\ ferr = "none"
  /\ sends = 1
  /\ Len(dets) = MaxDets
  /\ Len(usb.rects) = MaxDets
  /\ usb.fps

\* C27: when process() has returned for a frame with N detections, the
\* image sent has the N rectangles of the detections, in their order, and
\* the text with the count N, and N serial messages were sent, the k-th one
\* for the k-th detection.
C27_Reporting ==
  (fpc = "idle" /\ sends = 1) =>
    /\ usb.rects = dets
    /\ usb.count = Len(dets)
    /\ Len(serial) = Len(dets)
    /\ \A k \in 1..Len(dets) :
         /\ serial[k].id = "face"
         /\ serial[k].w = dets[k].width
         /\ serial[k].h = dets[k].height

C27_Witness ==
  /\ fpc = "idle"
  /\ sends = 1
  /\ Len(dets) = MaxDets
  /\ dets[1] # dets[2]
  /\ Len(serial) = MaxDets
  /\ usb.count = MaxDets

\* C28: with an input image that is not YUYV process() ends at the input
\* check with an exception; with an output image that is not YUYV of height
\* h + 24 the paste task fails and process() ends with that exception at
\* paste_fut.get(); in both cases outframe.send() is not called.
C28_FormatCheck ==
  [][/\ (fpc = "require" /\ fpc' # "require" /\ inimg.fmt # "YUYV") =>
          (fpc' = "idle" /\ ferr' = "input" /\ paste_fut' = "none" /\ sends' = 0)
     /\ (ProcessEnds /\ inimg.fmt = "YUYV" /\ ~OutputFits) =>
          (fpc = "join" /\ paste_fut = "failed" /\ ferr' = "output" /\ sends' = 0)
     /\ (paste_fut = "failed" /\ fpc = "join" /\ fpc' # fpc) =>
          (fpc' = "idle" /\ ferr' = "output")
     /\ (ferr # "output" /\ ferr' = "output") =>
          (fpc = "join" /\ paste_fut = "failed")
     /\ sends' # 0 => (inimg.fmt = "YUYV" /\ OutputFits /\ ferr' = "none")]_vars

C28_Witness ==
  /\ fpc = "idle"
  /\ ferr = "output"
  /\ paste_fut = "failed"
  /\ sends = 0
  /\ inimg.fmt = "YUYV"
  /\ outframe.fmt = "YUYV"
  /\ outframe.h = inimg.h

\* the commands that download, extract, delete or move
Changing == {"wget", "tar", "rm", "mv"}

\* C29: a run that finds the directory dlib exits with status 0 having
\* executed none of wget, tar, rm and mv and leaves the tree as it was; once
\* a run has installed dlib, every later run of the script or of the rebuild
\* guard leaves the tree exactly as that run left it.
C29_Idempotent ==
  [][/\ (spc = "guard" /\ IsDir(tree, "dlib")) =>
          /\ spc' = "idle"
          /\ status' = 0
          /\ tree' = tree
          /\ ops' \cap Changing = {}
     /\ installed # NoTree =>
          /\ tree' = installed
          /\ installed' = installed
          /\ ops' \cap Changing = {}
          /\ spc' = "idle" => status' = 0]_vars

C29_Witness ==
  /\ spc = "idle"
  /\ installed # NoTree
  /\ tree = installed
  /\ IsDir(tree, "dlib")
  /\ ops = {"echo"}
  /\ status = 0
  /\ runs >= 2

====
